---- MODULE Spec2Model ----
(***************************************************************************)
(* A model of Halp_Freshservice_Sync.py: one reconciliation run of the     *)
(* script against the Slack directory, the Freshservice contact store and  *)
(* the ticket store (Spec), and two invocations of the script running      *)
(* against the same store (SpecTwoRuns).                                   *)
(*                                                                         *)
(* Strings are sequences of chunks (a chunk is a run of characters that    *)
(* the model never splits), so that Python's `in`, str.replace and the     *)
(* regular expression of line 296 are computed and not assumed.            *)
(* A value that may be None is a sequence of length 0 or 1.                *)
(***************************************************************************)
EXTENDS Integers, Sequences, FiniteSets, TLC

\* ------------------------------------------------------------------ bounds

\* Largest number of pages the Slack directory is split into.
MaxPages == 2

\* Largest number of secondary emails a contact record holds before the run.
MaxSecondary == 2

\* ----------------------------------------------------------------- strings

\* Python: pat in s
Contains(s, pat) ==
    \E i \in 0..(Len(s) - Len(pat)) : SubSeq(s, i + 1, i + Len(pat)) = pat

\* Python: s.replace(pat, rep), every non-overlapping occurrence, left to right
RECURSIVE Replace(_, _, _)
Replace(s, pat, rep) ==
    IF Len(s) < Len(pat) THEN s
    ELSE IF SubSeq(s, 1, Len(pat)) = pat
         THEN rep \o Replace(SubSeq(s, Len(pat) + 1, Len(s)), pat, rep)
         ELSE <<Head(s)>> \o Replace(Tail(s), pat, rep)

\* Python: list.remove(x) on a list that holds x: the first occurrence goes
RECURSIVE RemoveFirst(_, _)
RemoveFirst(l, x) ==
    IF l = <<>> THEN <<>>
    ELSE IF Head(l) = x THEN Tail(l)
         ELSE <<Head(l)>> \o RemoveFirst(Tail(l), x)

\* Python: x in l, for a list l
InList(l, x) == \E i \in 1..Len(l) : l[i] = x

ListSet(l) == {l[i] : i \in 1..Len(l)}

\* Every ordering of a finite set as a list (the order of a JSON array is the
\* service's choice).
Orderings(S) ==
    {l \in [1..Cardinality(S) -> S] : \A i, j \in 1..Cardinality(S) : l[i] = l[j] => i = j}

\* --------------------------------------------------------------- constants

HALP_EMAIL == <<"top-hat", "@", "inbound", ".", "halp-mail", ".", "com">>

TOPHAT == <<"tophat", ".", "com">>
TOPHATMONOCLE == <<"tophat", "monocle", ".", "com">>
BLUEDOORPUBLISHING == <<"bluedoor", "publishing", ".", "com">>
BLUEDOORCLOUD == <<"bluedoor", "cloud", ".", "com">>

FRESHSERVICE_AGENT_SLACKNAMES == {<<"TomSpace">>}

\* The number of characters of a chunk made of word characters only (\w);
\* a chunk outside the table holds some other character.
WordChars ==
    [com |-> 3, international |-> 13, gmail |-> 5, corp |-> 4, tophat |-> 6,
     monocle |-> 7, bluedoor |-> 8, publishing |-> 10, cloud |-> 5, halp |-> 4,
     jane |-> 4, bob |-> 3]

IsWord(c) == c \in DOMAIN WordChars

RECURSIVE WordLen(_)
WordLen(s) == IF s = <<>> THEN 0 ELSE WordChars[Head(s)] + WordLen(Tail(s))

\* \w{2,10} of the regular expression
TldMinChars == 2
TldMaxChars == 10

\* ------------------------------------------------------ DomainAliasResolver

\* Lines 282-283: the forward canonicalization of the directory email.
Canonicalize(email) ==
    IF Contains(email, TOPHAT) THEN Replace(email, TOPHAT, TOPHATMONOCLE) ELSE email

\* Positions of a chunk in a string.
Positions(s, c) == {i \in 1..Len(s) : s[i] = c}

Min(S) == CHOOSE x \in S : \A y \in S : x <= y
Max(S) == CHOOSE x \in S : \A y \in S : x >= y

\* Lines 296-297: ^(?P<username>[^@]+)@(?P<domain>.*)\.(?P<tld>\w{2,10})$
\* The username ends at the first '@', and it is not empty; the top-level label
\* holds no dot, so it follows the last dot of the string, which lies after
\* that '@'; it is 2 to 10 word characters. <<>> when the search returns None.
Tokenize(email) ==
    IF Positions(email, "@") = {} \/ Positions(email, ".") = {} THEN <<>>
    ELSE LET at == Min(Positions(email, "@"))
             dot == Max(Positions(email, "."))
             tld == SubSeq(email, dot + 1, Len(email))
         IN  IF /\ at > 1
                /\ dot > at
                /\ \A i \in 1..Len(tld) : IsWord(tld[i])
                /\ WordLen(tld) >= TldMinChars
                /\ WordLen(tld) <= TldMaxChars
             THEN <<[username |-> SubSeq(email, 1, at - 1),
                     domain |-> SubSeq(email, at + 1, dot - 1),
                     tld |-> tld]>>
             ELSE <<>>

\* HalpAlias with the label put after the domain: username@domain.halp.tld
HalpAliasAfterDomain(tok) == tok.username \o <<"@">> \o tok.domain \o <<".", "halp", ".">> \o tok.tld

\* Lines 298-301: username@halp.domain.tld
HalpAlias(tok) == tok.username \o <<"@", "halp", ".">> \o tok.domain \o <<".">> \o tok.tld

\* ------------------------------------------------------------ update value

\* email_to_update is a str or a list of str (line 215); val holds the one
\* string or the list's elements.
Str(e) == [kind |-> "str", val |-> <<e>>]
List(l) == [kind |-> "list", val |-> l]

\* ValueAfterCleanup with the test of line 334 dropped: the candidate email
\* is written whatever the list holds.
ValueAfterCleanupIgnoringList(secondary_emails, email_to_update) ==
    IF Contains(email_to_update, TOPHATMONOCLE)
    THEN List(<<Replace(email_to_update, TOPHATMONOCLE, TOPHAT)>>)
    ELSE IF Contains(email_to_update, BLUEDOORPUBLISHING)
         THEN List(<<Replace(email_to_update, BLUEDOORPUBLISHING, BLUEDOORCLOUD)>>)
         ELSE Str(email_to_update)

\* ValueAfterCleanup without lines 335-337.
ValueAfterCleanupWithoutTophat(secondary_emails, email_to_update) ==
    IF secondary_emails = <<>>
    THEN IF Contains(email_to_update, BLUEDOORPUBLISHING)
         THEN List(<<Replace(email_to_update, BLUEDOORPUBLISHING, BLUEDOORCLOUD)>>)
         ELSE Str(email_to_update)
    ELSE List(secondary_emails)

\* ValueAfterCleanup without lines 338-340.
ValueAfterCleanupWithoutBluedoor(secondary_emails, email_to_update) ==
    IF secondary_emails = <<>>
    THEN IF Contains(email_to_update, TOPHATMONOCLE)
         THEN List(<<Replace(email_to_update, TOPHATMONOCLE, TOPHAT)>>)
         ELSE Str(email_to_update)
    ELSE List(secondary_emails)

\* Lines 334-342: the value written once HALP_EMAIL is removed. The last
\* branch of the empty case leaves email_to_update as it was: a str.
ValueAfterCleanup(secondary_emails, email_to_update) ==
    IF secondary_emails = <<>>
    THEN IF Contains(email_to_update, TOPHATMONOCLE)
         THEN List(<<Replace(email_to_update, TOPHATMONOCLE, TOPHAT)>>)
         ELSE IF Contains(email_to_update, BLUEDOORPUBLISHING)
              THEN List(<<Replace(email_to_update, BLUEDOORPUBLISHING, BLUEDOORCLOUD)>>)
              ELSE Str(email_to_update)
    ELSE List(secondary_emails)

\* ------------------------------------------------------------ contact store

Ids == {"r1", "r2"}

\* GET /requesters?email=...: the records that carry the email, as primary or
\* as a secondary email (line 326 tests HALP_EMAIL in the secondary emails of
\* the record found under HALP_EMAIL).
Find(st, email) ==
    {i \in Ids : /\ st[i] # <<>>
                 /\ \/ st[i][1].primary_email = email
                    \/ email \in st[i][1].secondary_emails}

Emails(rec) == {rec.primary_email} \cup rec.secondary_emails

\* No email belongs to two records, and a primary email is not among the
\* record's own secondary emails.
StoreOk(st) ==
    /\ \A i \in Ids : st[i] # <<>> => st[i][1].primary_email \notin st[i][1].secondary_emails
    /\ \A i, j \in Ids : (i # j /\ st[i] # <<>> /\ st[j] # <<>>)
                            => Emails(st[i][1]) \cap Emails(st[j][1]) = {}

\* PUT /requesters/{id}/merge: the secondary requester is absorbed and ceases
\* to exist; its emails accumulate into the primary's secondary emails.
StoreMerge(st, primary, secondary) ==
    [st EXCEPT ![primary] = <<[@[1] EXCEPT !.secondary_emails =
                                   @ \cup Emails(st[secondary][1])]>>,
               ![secondary] = <<>>]

MergeValid(st, primary, secondary) ==
    primary # secondary /\ st[primary] # <<>> /\ st[secondary] # <<>>

\* PUT /requesters/{id} {field: value}
StoreUpdate(st, id, field, value) ==
    IF field = "primary_email"
    THEN [st EXCEPT ![id] = <<[@[1] EXCEPT !.primary_email = value.val[1]]>>]
    ELSE [st EXCEPT ![id] = <<[@[1] EXCEPT !.secondary_emails = ListSet(value.val)]>>]

\* The service takes a str for primary_email and an array for
\* secondary_emails, and keeps the store's emails unique.
UpdateValid(st, id, field, value) ==
    /\ st[id] # <<>>
    /\ (field = "primary_email") => value.kind = "str"
    /\ (field = "secondary_emails") => value.kind = "list"
    /\ StoreOk(StoreUpdate(st, id, field, value))

\* A record as the service's JSON: the secondary emails are an array.
Json(id, rec, order) ==
    [id |-> id, primary_email |-> rec.primary_email, secondary_emails |-> order,
     first_name |-> rec.first_name, last_name |-> rec.last_name]

\* get_requester, lines 158-173: what requester.json()["requesters"] parses
\* to, reduced to its first element; <<>> when the list is empty.
GetRequesterResponses(st, email) ==
    IF Find(st, email) = {} THEN {<<>>}
    ELSE UNION {{<<Json(i, st[i][1], order)>> : order \in Orderings(st[i][1].secondary_emails)} :
                   i \in Find(st, email)}

\* GetRequesterRaises with line 174 never true: None is returned.
GetRequesterNeverRaises(email_is_halp_constant, found) == FALSE

\* get_requester, lines 171-177: the empty result raises for HALP_EMAIL alone
\* (the test is `email is HALP_EMAIL`, which holds of the constant itself).
GetRequesterRaises(email_is_halp_constant, found) ==
    found = <<>> /\ email_is_halp_constant

\* get_requester with the rejected request taken for an empty result.
GetRequesterRejectionAsNone(email_is_halp_constant, ok, found) ==
    IF ~ok THEN [raised |-> "", value |-> <<>>]
    ELSE IF GetRequesterRaises(email_is_halp_constant, found)
         THEN [raised |-> "ValueError", value |-> <<>>]
         ELSE [raised |-> "", value |-> found]

\* get_requester, lines 158-177: a rejected request has no "requesters" key
\* (KeyError, re-raised at line 169); otherwise the first requester or None.
GetRequester(email_is_halp_constant, ok, found) ==
    IF ~ok THEN [raised |-> "KeyError", value |-> <<>>]
    ELSE IF GetRequesterRaises(email_is_halp_constant, found)
         THEN [raised |-> "ValueError", value |-> <<>>]
         ELSE [raised |-> "", value |-> found]

\* ---------------------------------------------------------------- directory

JANE_DOE == <<"Jane", " ", "Doe">>

\* Lines 79-85
edge_case_name_remap(name) ==
    IF name = <<"Hood", " ", "he/him/his">> THEN <<"Hood", " ", "(", "he/him/his", ")">>
    ELSE IF name = <<"Joel", " ", "he/him/his">> THEN <<"Joel", " ", "(", "he/him/his", ")">>
    ELSE IF name = <<"Ralf", " ", "he/him/his">> THEN <<"Ralf", " ", "(", "he/him/his", ")">>
    ELSE IF name = <<"Wenyu", " ", "Gu", " ", "Fish">> THEN <<"Wenyu", " ", "Gu", " ", "(", "Fish", ")">>
    ELSE name

\* Line 33
IS_REPLY(inp) == inp.HALP_REQUESTER # <<>>

\* Lines 69-88: the name looked up in the directory.
SlackName(inp) ==
    edge_case_name_remap(
        IF inp.DISPLAY_OR_REAL_NAME \in FRESHSERVICE_AGENT_SLACKNAMES
        THEN inp.DISPLAY_OR_REAL_NAME
        ELSE IF IS_REPLY(inp) THEN inp.HALP_REQUESTER[1]
             ELSE inp.DISPLAY_OR_REAL_NAME)

\* Matches without lines 123-124: the real name is not tried.
MatchesDisplayNameOnly(user, slack_name) ==
    Contains(user.display_name_normalized, slack_name)

\* Lines 120-124: the members of a page that match, by display name or else
\* by real name.
Matches(user, slack_name) ==
    \/ Contains(user.display_name_normalized, slack_name)
    \/ Contains(user.real_name_normalized, slack_name)

MatchingPositions(members, slack_name) ==
    {i \in 1..Len(members) : Matches(members[i], slack_name)}

\* A cursor names the page it leads to. Line 95: "Initial" stands for the
\* first page; line 132: the empty cursor "" is the false one.
Initial == 1
EmptyCursor == 0

\* NextCursor with the empty cursor taken for the first page's: the scan
\* starts over.
NextCursorStartingOver(page) ==
    IF page.next_cursor = <<>> THEN [raised |-> "KeyError", cursor |-> <<>>]
    ELSE IF page.next_cursor[1] = EmptyCursor
         THEN [raised |-> "", cursor |-> <<Initial>>]
         ELSE [raised |-> "", cursor |-> page.next_cursor]

\* Lines 130-139: the page's response_metadata.next_cursor. A missing key
\* raises KeyError before next_cursor is assigned; the empty cursor "" is
\* assigned and then raises TypeError.
NextCursor(page) ==
    IF page.next_cursor = <<>> THEN [raised |-> "KeyError", cursor |-> <<>>]
    ELSE IF page.next_cursor[1] = EmptyCursor
         THEN [raised |-> "TypeError", cursor |-> page.next_cursor]
         ELSE [raised |-> "", cursor |-> page.next_cursor]

\* -------------------------------------------------------------------- state

VARIABLES
    input,                  \* input_data: DISPLAY_OR_REAL_NAME, HALP_REQUESTER, TICKET_ID
    directory,              \* the Slack workspace's users.list, page by page
    store,                  \* the Freshservice requesters, by id
    store0,                 \* the store at the start of the run
    ticket,                 \* the ticket's custom field halp_requester
    pc,                     \* the external call the script issues next
    error,                  \* the exception that ended the run
    next_cursor,            \* lookup_email_from_slack's pagination cursor
    slack_email,
    new_requester,
    existing_requester,
    halp_domain_tld_email,
    requester_exists,
    merged_requester,
    email_to_update,
    email_type,
    calls,                  \* the external calls the run issued so far, in order
    other                   \* a second invocation of the script, while it waits

vars ==
    <<input, directory, store, store0, ticket, pc, error, next_cursor, slack_email,
      new_requester, existing_requester, halp_domain_tld_email, requester_exists,
      merged_requester, email_to_update, email_type, calls, other>>

locals ==
    <<slack_email, new_requester, existing_requester, halp_domain_tld_email,
      requester_exists, merged_requester, email_to_update, email_type>>

Unbound == [kind |-> "unbound", val |-> <<>>]

\* One external call: the api, the requester id it addresses, its argument
\* (the cursor, the email looked up, the requester merged in, the ticket
\* number), the field and value it writes, and whether the service accepted.
Call(api, id, arg, field, value, ok) ==
    [api |-> api, id |-> id, arg |-> arg, field |-> field, value |-> value, ok |-> ok]

\* ------------------------------------------------------------------- inputs

PERSONAL == <<"personal", "@", "gmail", ".", "com">>
OLD == <<"old", "@", "gmail", ".", "com">>
STRANGER == <<"stranger", "@", "gmail", ".", "com">>
BOB == <<"bob", "@", "gmail", ".", "com">>

\* The emails the directory may hold for the sender: a rewritten corporate
\* domain, the domain it is rewritten to, a domain of the reverse table
\* alone, a domain of neither table, and a
\* top-level label longer than the regular expression takes. The inbound
\* mailbox is no member of the workspace.
JANE_GMAIL == <<"jane", "@", "gmail", ".", "com">>

DirEmails ==
    { <<"jane", "@">> \o TOPHAT,
      <<"jane", "@">> \o TOPHATMONOCLE,
      <<"jane", "@">> \o BLUEDOORPUBLISHING,
      JANE_GMAIL,
      <<"jane", "@", "corp", ".", "international">> }

Jane(d) == [display_name_normalized |-> JANE_DOE, real_name_normalized |-> JANE_DOE, email |-> d]
Bob == [display_name_normalized |-> <<"Bob">>, real_name_normalized |-> <<"Bob", " ", "Ray">>,
        email |-> BOB]

\* A page: its members and response_metadata.next_cursor (<<>>: no such key).
Page(members, cursor) == [members |-> members, next_cursor |-> cursor]

\* A directory of n pages: the sender on the last page, or on none.
Directory(d, n, found, last) ==
    [i \in 1..n |-> Page(IF i = n /\ found THEN <<Bob, Jane(d)>> ELSE <<Bob>>,
                         IF i < n THEN <<i + 1>> ELSE last)]

\* The last page's cursor is read only when the sender is on no page.
DirectoriesOf(d, n) ==
    {Directory(d, n, TRUE, <<EmptyCursor>>)}
        \cup {Directory(d, n, FALSE, last) : last \in {<<EmptyCursor>>, <<>>}}

\* A user who matches by the real name alone, and another user, further down
\* the directory, who matches by the display name.
NAMESAKE == <<"namesake", "@", "gmail", ".", "com">>
JaneByRealName(d) ==
    [display_name_normalized |-> <<"JD">>,
     real_name_normalized |-> <<"Dr", " ">> \o JANE_DOE, email |-> d]
Namesake ==
    [display_name_normalized |-> JANE_DOE \o <<" ", "II">>,
     real_name_normalized |-> <<"J", " ", "Doe">>, email |-> NAMESAKE]

\* The two users on one page, and on two pages in a row.
PriorityDirectories(d) ==
    { [i \in 1..1 |-> Page(<<Bob, JaneByRealName(d), Namesake>>, <<EmptyCursor>>)] }
        \cup { [i \in 1..2 |-> IF i = 1 THEN Page(<<Bob, JaneByRealName(d)>>, <<2>>)
                                ELSE Page(<<Namesake, Bob>>, <<EmptyCursor>>)] : n \in 2..MaxPages }

\* A user whose display name holds parentheses the ticketing system dropped
\* from the name it stored.
JaneInParentheses(d, real_name) ==
    [display_name_normalized |-> <<"Jane", " ", "(", "Doe", ")">>,
     real_name_normalized |-> real_name, email |-> d]

ParenthesisDirectories(d) ==
    { [i \in 1..1 |-> Page(<<Bob, JaneInParentheses(d, real_name)>>, <<EmptyCursor>>)] :
        real_name \in {JANE_DOE, <<"J", " ", "Doe">>} }

\* The name matching does not read the email: the directories that try it
\* are built for one email.
Directories(d) ==
    UNION {DirectoriesOf(d, n) : n \in 1..MaxPages}
        \cup (IF d = JANE_GMAIL THEN PriorityDirectories(d) \cup ParenthesisDirectories(d)
              ELSE {})

Inputs ==
    { [DISPLAY_OR_REAL_NAME |-> JANE_DOE, HALP_REQUESTER |-> h, TICKET_ID |-> <<"INC-", "9999">>] :
        h \in {<<>>, <<JANE_DOE>>} }

\* The halp alias of a canonical email, as a set (empty when there is none).
AliasSet(c) == IF Tokenize(c) = <<>> THEN {} ELSE {HalpAlias(Tokenize(c)[1])}

Records(primaries, secondaries, names) ==
    { [primary_email |-> p, secondary_emails |-> S, first_name |-> n[1], last_name |-> n[2]] :
        p \in primaries,
        S \in {T \in SUBSET secondaries : Cardinality(T \ {HALP_EMAIL}) <= MaxSecondary},
        n \in names }

\* The record the ticketing system filed the inbound message under: it
\* carries HALP_EMAIL, as its primary email or among its secondary emails.
PlaceholderRecords(c) ==
    { r \in Records({HALP_EMAIL, c, OLD} \cup AliasSet(c),
                    {HALP_EMAIL, c, PERSONAL},
                    {<< <<"Jane">>, <<"Doe">> >>}) : HALP_EMAIL \in Emails(r) }

\* Another requester, which may be the sender's durable record.
OtherRecords(c) ==
    Records({c, STRANGER} \cup AliasSet(c), {c, PERSONAL},
            {<< <<"Jane">>, <<"Doe">> >>, << <<"Janet">>, <<"Doe">> >>})

Stores(c) ==
    { st \in { [i \in Ids |-> IF i = "r1" THEN p ELSE o] :
                 p \in {<<>>} \cup {<<r>> : r \in PlaceholderRecords(c)},
                 o \in {<<>>} \cup {<<r>> : r \in OtherRecords(c)} } :
        StoreOk(st) }

\* The script's position and local variables before its first statement.
AtStart ==
    [pc |-> "users_list", error |-> "", slack_email |-> <<>>,
     new_requester |-> <<>>, existing_requester |-> <<>>,
     halp_domain_tld_email |-> <<>>,
     requester_exists |-> FALSE, merged_requester |-> <<>>,
     email_to_update |-> Unbound, email_type |-> ""]

LocalsAtStart ==
    /\ pc = AtStart.pc
    /\ error = AtStart.error
    /\ slack_email = AtStart.slack_email
    /\ new_requester = AtStart.new_requester
    /\ existing_requester = AtStart.existing_requester
    /\ halp_domain_tld_email = AtStart.halp_domain_tld_email
    /\ requester_exists = AtStart.requester_exists
    /\ merged_requester = AtStart.merged_requester
    /\ email_to_update = AtStart.email_to_update
    /\ email_type = AtStart.email_type

\* An invocation that is not running now: its input_data, its pagination
\* cursor, the calls it issued, its position and local variables.
Waiting(inp, cursor, issued, L) ==
    [input |-> inp, next_cursor |-> cursor, calls |-> issued, run |-> L]

\* One invocation of the script alone.
NoOtherRun ==
    Waiting([DISPLAY_OR_REAL_NAME |-> <<>>, HALP_REQUESTER |-> <<>>, TICKET_ID |-> <<>>],
            Initial, <<>>, [AtStart EXCEPT !.pc = "none"])

Init ==
    /\ input \in Inputs
    /\ \E d \in DirEmails :
          /\ directory \in Directories(d)
          /\ store \in Stores(Canonicalize(d))
    /\ store0 = store
    /\ ticket = <<>>
    /\ next_cursor = Initial
    /\ LocalsAtStart
    /\ calls = <<>>
    /\ other = NoOtherRun

\* The emails of the sender in the runs of two invocations.
TwoRunsEmails == {<<"jane", "@">> \o TOPHAT, JANE_GMAIL}

\* The stores the two invocations start from: the placeholder under
\* HALP_EMAIL and the sender's durable record, under the canonical email or
\* under the halp alias.
TwoRunsStores(c) ==
    { st \in Stores(c) :
        /\ st["r1"] # <<>> /\ st["r2"] # <<>>
        /\ st["r1"][1].primary_email = HALP_EMAIL
        /\ st["r2"][1].primary_email \in {c} \cup AliasSet(c)
        /\ st["r2"][1].first_name = <<"Janet">> }

\* Two invocations of the script for two inbound messages of one sender
\* (a new ticket or a reply each), against one directory and one store.
InitTwoRuns ==
    /\ input \in Inputs
    /\ \E d \in TwoRunsEmails :
          /\ directory = Directory(d, 1, TRUE, <<EmptyCursor>>)
          /\ store \in TwoRunsStores(Canonicalize(d))
    /\ store0 = store
    /\ ticket = <<>>
    /\ next_cursor = Initial
    /\ LocalsAtStart
    /\ calls = <<>>
    /\ \E inp \in Inputs : other = Waiting(inp, Initial, <<>>, AtStart)

\* ------------------------------------------------------- the script's steps

\* The script's position and local variables, as one record.
Now ==
    [pc |-> pc, error |-> error, slack_email |-> slack_email,
     new_requester |-> new_requester, existing_requester |-> existing_requester,
     halp_domain_tld_email |-> halp_domain_tld_email,
     requester_exists |-> requester_exists, merged_requester |-> merged_requester,
     email_to_update |-> email_to_update, email_type |-> email_type]

Assign(L) ==
    /\ pc' = L.pc
    /\ error' = L.error
    /\ slack_email' = L.slack_email
    /\ new_requester' = L.new_requester
    /\ existing_requester' = L.existing_requester
    /\ halp_domain_tld_email' = L.halp_domain_tld_email
    /\ requester_exists' = L.requester_exists
    /\ merged_requester' = L.merged_requester
    /\ email_to_update' = L.email_to_update
    /\ email_type' = L.email_type

\* An exception nothing catches: the run ends.
Raise(L, exception) == [L EXCEPT !.pc = "aborted", !.error = exception]

\* CleanSecondaryEmails without line 332: HALP_EMAIL is not removed.
CleanSecondaryEmailsKeepingInbound(L) ==
    LET merged == L.merged_requester[1]
    IN  [L EXCEPT
           !.email_to_update = ValueAfterCleanup(merged.secondary_emails[1], L.email_to_update.val[1]),
           !.email_type = "secondary_emails",
           !.pc = "update_email"]

\* Lines 332-344, on the merged_requester bound by line 322 or 327.
CleanSecondaryEmails(L) ==
    LET merged == L.merged_requester[1]
    IN  IF ~InList(merged.secondary_emails[1], HALP_EMAIL)
        THEN Raise(L, "ValueError")
        ELSE LET cleaned == RemoveFirst(merged.secondary_emails[1], HALP_EMAIL)
             IN  [L EXCEPT
                    !.merged_requester = <<[merged EXCEPT !.secondary_emails = <<cleaned>>]>>,
                    !.email_to_update = ValueAfterCleanup(cleaned, L.email_to_update.val[1]),
                    !.email_type = "secondary_emails",
                    !.pc = "update_email"]

\* MergeOrClean without the test of line 321: the merge is called for
\* whatever record was found.
MergeOrCleanAlwaysMerging(L) ==
    IF L.new_requester = <<>> THEN Raise(L, "TypeError")
    ELSE [L EXCEPT !.pc = "merge_requesters"]

\* Lines 320-331 up to the merge call, and on through line 344 when no merge
\* is called for. With the ids equal and HALP_EMAIL not among the
\* placeholder's secondary emails, merged_requester is unbound at line 332;
\* a new_requester of None cannot be subscripted at line 321.
MergeOrClean(L) ==
    LET new == L.new_requester[1]
        existing == L.existing_requester[1]
    IN  IF L.new_requester = <<>> THEN Raise(L, "TypeError")
        ELSE IF new.id # existing.id
        THEN [L EXCEPT !.pc = "merge_requesters"]
        ELSE IF InList(new.secondary_emails, HALP_EMAIL)
             THEN CleanSecondaryEmails(
                      [L EXCEPT !.merged_requester =
                          <<[id |-> new.id, secondary_emails |-> <<new.secondary_emails>>]>>])
             ELSE Raise(L, "NameError")

\* Lines 291-302 and 316-318, then 320 on: after the lookup under slack_email.
AfterExistingLookup(L, found) ==
    IF found = <<>>
    THEN IF Tokenize(L.slack_email) = <<>>
         THEN Raise([L EXCEPT !.existing_requester = found], "AttributeError")
         ELSE [L EXCEPT !.existing_requester = found,
                        !.halp_domain_tld_email = HalpAlias(Tokenize(L.slack_email)[1]),
                        !.pc = "get_halp_alias"]
    ELSE MergeOrClean([L EXCEPT !.existing_requester = found,
                                !.email_to_update = Str(L.slack_email),
                                !.requester_exists = TRUE])

\* AfterHalpAliasLookup with line 309 naming the other field.
AfterHalpAliasLookupSecondaryField(L, found) ==
    IF found = <<>> /\ L.new_requester = <<>> THEN Raise(L, "TypeError")
    ELSE IF found = <<>>
    THEN [L EXCEPT !.existing_requester = found,
                   !.merged_requester = <<[id |-> L.new_requester[1].id, secondary_emails |-> <<>>]>>,
                   !.email_type = "secondary_emails",
                   !.requester_exists = FALSE,
                   !.email_to_update = Str(L.halp_domain_tld_email),
                   !.pc = "update_email"]
    ELSE MergeOrClean([L EXCEPT !.existing_requester = found,
                                !.requester_exists = TRUE,
                                !.email_to_update = Str(L.halp_domain_tld_email)])

\* Lines 303-314, then 320 on: after the lookup under the halp alias.
AfterHalpAliasLookup(L, found) ==
    IF found = <<>> /\ L.new_requester = <<>> THEN Raise(L, "TypeError")
    ELSE IF found = <<>>
    THEN [L EXCEPT !.existing_requester = found,
                   !.merged_requester = <<[id |-> L.new_requester[1].id, secondary_emails |-> <<>>]>>,
                   !.email_type = "primary_email",
                   !.requester_exists = FALSE,
                   !.email_to_update = Str(L.halp_domain_tld_email),
                   !.pc = "update_email"]
    ELSE MergeOrClean([L EXCEPT !.existing_requester = found,
                                !.requester_exists = TRUE,
                                !.email_to_update = Str(L.halp_domain_tld_email)])

\* Lines 322-344: after the merge call returned the merged requester.
AfterMerge(L, merged) ==
    CleanSecondaryEmails(
        [L EXCEPT !.merged_requester =
            <<[id |-> merged.id, secondary_emails |-> <<merged.secondary_emails>>]>>])

\* `a is not b` for two values parsed from two responses: unequal values are
\* never one object; whether equal ones are is the interpreter's choice.
IsNot(a, b, same_object) == ~(a = b /\ same_object)

DigitChunks == {"9999"}

\* Line 257: re.findall(r"\d+$", ticket_id)
TrailingDigits(ticket_id) ==
    IF ticket_id # <<>> /\ ticket_id[Len(ticket_id)] \in DigitChunks
    THEN <<ticket_id[Len(ticket_id)]>>
    ELSE <<>>

\* Lines 258-259
HalpRequesterName(first_name, last_name) == first_name \o <<" ">> \o last_name

\* Lines 351-356 and update_ticket's lines 254-259: from the update call's
\* return to the ticket call. In the promote branch existing_requester is
\* None at line 354; with both names the same objects update_ticket reaches
\* line 271 with updated_ticket_parsed unbound.
AfterUpdate(L, inp, same_first, same_last) ==
    IF IS_REPLY(inp) THEN [L EXCEPT !.pc = "done"]
    ELSE IF L.existing_requester = <<>> THEN Raise(L, "TypeError")
    ELSE LET new == L.new_requester[1]
             existing == L.existing_requester[1]
         IN  IF \/ IsNot(new.first_name, existing.first_name, same_first)
                \/ IsNot(new.last_name, existing.last_name, same_last)
             THEN IF TrailingDigits(inp.TICKET_ID) = <<>>
                  THEN Raise(L, "IndexError")
                  ELSE [L EXCEPT !.pc = "update_ticket"]
             ELSE Raise(L, "UnboundLocalError")

\* ------------------------------------------------------------------ actions

\* lookup_email_from_slack, lines 101-139: one users.list request and the
\* scan of its page; on a match, lines 122-124 and 280-283.
UsersList ==
    /\ pc = "users_list"
    /\ \E ok \in BOOLEAN :
          LET page == directory[next_cursor]
              hits == MatchingPositions(page.members, SlackName(input))
          IN  /\ calls' = Append(calls, Call("users.list", "", <<next_cursor>>, "", Unbound, ok))
              /\ IF ~ok
                 THEN Assign(Raise(Now, "KeyError")) /\ UNCHANGED next_cursor
                 ELSE IF hits # {}
                 THEN /\ Assign([Now EXCEPT
                            !.slack_email = Canonicalize(page.members[Min(hits)].email),
                            !.pc = "get_new_requester"])
                      /\ UNCHANGED next_cursor
                 ELSE LET after == NextCursor(page)
                      IN  /\ next_cursor' = IF after.cursor = <<>> THEN next_cursor
                                             ELSE after.cursor[1]
                          /\ IF after.raised # "" THEN Assign(Raise(Now, after.raised))
                             ELSE Assign(Now)
    /\ UNCHANGED <<input, directory, store, store0, ticket, other>>

\* Line 287: get_requester(HALP_EMAIL)
GetNewRequester ==
    /\ pc = "get_new_requester"
    /\ \E ok \in BOOLEAN, found \in GetRequesterResponses(store, HALP_EMAIL) :
          /\ calls' = Append(calls, Call("get_requester", "", HALP_EMAIL, "", Unbound, ok))
          /\ LET got == GetRequester(TRUE, ok, found)
             IN  IF got.raised # "" THEN Assign(Raise(Now, got.raised))
                 ELSE Assign([Now EXCEPT !.new_requester = got.value,
                                         !.pc = "get_existing_requester"])
    /\ UNCHANGED <<input, directory, store, store0, ticket, next_cursor, other>>

\* Line 291: get_requester(slack_email), and the script up to its next call
GetExistingRequester ==
    /\ pc = "get_existing_requester"
    /\ \E ok \in BOOLEAN, found \in GetRequesterResponses(store, slack_email) :
          /\ calls' = Append(calls, Call("get_requester", "", slack_email, "", Unbound, ok))
          /\ LET got == GetRequester(FALSE, ok, found)
             IN  IF got.raised # "" THEN Assign(Raise(Now, got.raised))
                 ELSE Assign(AfterExistingLookup(Now, got.value))
    /\ UNCHANGED <<input, directory, store, store0, ticket, next_cursor, other>>

\* Line 303: get_requester(halp_domain_tld_email), and the script up to its
\* next call
GetHalpAliasRequester ==
    /\ pc = "get_halp_alias"
    /\ \E ok \in BOOLEAN, found \in GetRequesterResponses(store, halp_domain_tld_email) :
          /\ calls' = Append(calls, Call("get_requester", "", halp_domain_tld_email, "", Unbound, ok))
          /\ LET got == GetRequester(FALSE, ok, found)
             IN  IF got.raised # "" THEN Assign(Raise(Now, got.raised))
                 ELSE Assign(AfterHalpAliasLookup(Now, got.value))
    /\ UNCHANGED <<input, directory, store, store0, ticket, next_cursor, other>>

\* Lines 322-323: merge_requesters(existing_requester["id"], new_requester["id"]),
\* lines 192-205, and the script up to the update call
MergeRequesters ==
    /\ pc = "merge_requesters"
    /\ \E ok \in BOOLEAN :
          LET primary == existing_requester[1].id
              secondary == new_requester[1].id
              accepted == ok /\ MergeValid(store, primary, secondary)
              merged == StoreMerge(store, primary, secondary)
          IN  /\ calls' = Append(calls, Call("merge", primary, <<secondary>>, "", Unbound, accepted))
              /\ IF ~accepted
                 THEN Assign(Raise(Now, "KeyError")) /\ UNCHANGED store
                 ELSE /\ store' = merged
                      /\ \E order \in Orderings(merged[primary][1].secondary_emails) :
                            Assign(AfterMerge(Now, Json(primary, merged[primary][1], order)))
    /\ UNCHANGED <<input, directory, store0, ticket, next_cursor, other>>

\* Lines 346-347: update_email(merged_requester["id"], email_type,
\* email_to_update), lines 221-234, and the script up to the ticket call
UpdateEmail ==
    /\ pc = "update_email"
    /\ \E ok \in BOOLEAN, same_first \in BOOLEAN, same_last \in BOOLEAN :
          LET id == merged_requester[1].id
              accepted == ok /\ UpdateValid(store, id, email_type, email_to_update)
          IN  /\ calls' = Append(calls, Call("update_email", id, <<>>, email_type, email_to_update, accepted))
              /\ IF ~accepted
                 THEN Assign(Raise(Now, "KeyError")) /\ UNCHANGED store
                 ELSE /\ store' = StoreUpdate(store, id, email_type, email_to_update)
                      /\ Assign(AfterUpdate(Now, input, same_first, same_last))
    /\ UNCHANGED <<input, directory, store0, ticket, next_cursor, other>>

\* update_ticket, lines 261-271: the PUT of the ticket; a refusal of the
\* service is parsed like any response and raises nothing.
UpdateTicket ==
    /\ pc = "update_ticket"
    /\ \E ok \in BOOLEAN :
          LET name == HalpRequesterName(new_requester[1].first_name, new_requester[1].last_name)
          IN  /\ calls' = Append(calls, Call("update_ticket", "", TrailingDigits(input.TICKET_ID),
                                             "halp_requester", Str(name), ok))
              /\ ticket' = IF ok THEN <<name>> ELSE ticket
    /\ Assign([Now EXCEPT !.pc = "done"])
    /\ UNCHANGED <<input, directory, store, store0, next_cursor, other>>

\* The two invocations are two processes; each external call blocks its
\* process until the response, and between two calls of one the other may
\* run: the waiting invocation takes the place of the running one.
Switch ==
    /\ other.run.pc \notin {"none", "done", "aborted"}
    /\ Assign(other.run)
    /\ input' = other.input
    /\ next_cursor' = other.next_cursor
    /\ calls' = other.calls
    /\ other' = Waiting(input, next_cursor, calls, Now)
    /\ UNCHANGED <<directory, store, store0, ticket>>

Next ==
    \/ UsersList
    \/ GetNewRequester
    \/ GetExistingRequester
    \/ GetHalpAliasRequester
    \/ MergeRequesters
    \/ UpdateEmail
    \/ UpdateTicket

Spec == Init /\ [][Next]_vars

NextTwoRuns ==
    \/ Next
    \/ Switch

SpecTwoRuns == InitTwoRuns /\ [][NextTwoRuns]_vars

\* ------------------------------------------------------- reading the run

CallsTo(api) == SelectSeq(calls, LAMBDA c : c.api = api)

Merges == CallsTo("merge")
Updates == CallsTo("update_email")
TicketWrites == CallsTo("update_ticket")
Lookups == CallsTo("get_requester")

Finished == pc \in {"done", "aborted"}

\* The placeholder: the record the store held under HALP_EMAIL at the start.
PlaceholderIds == Find(store0, HALP_EMAIL)

\* The record the store held under an email at the start of the run.
IdsUnder(email) == IF email = <<>> THEN {} ELSE Find(store0, email)

\* The halp-alias lookup was answered.
AliasLookupAnswered == Len(Lookups) >= 3 /\ Lookups[3].ok

\* The lookup under the canonical email was answered.
CanonicalLookupAnswered == Len(Lookups) >= 2 /\ Lookups[2].ok

\* The three decision branches, read from the store at the start of the run.
NoRecordFound ==
    /\ AliasLookupAnswered
    /\ IdsUnder(slack_email) = {} /\ IdsUnder(halp_domain_tld_email) = {}

\* The records found under the canonical email, or else under the halp alias.
FoundIds ==
    IF ~CanonicalLookupAnswered THEN {}
    ELSE IF IdsUnder(slack_email) # {} THEN IdsUnder(slack_email)
    ELSE IF AliasLookupAnswered THEN IdsUnder(halp_domain_tld_email)
    ELSE {}

FoundDifferentId == FoundIds # {} /\ FoundIds \cap PlaceholderIds = {}
FoundSameId == FoundIds # {} /\ FoundIds \subseteq PlaceholderIds

\* The email the record was found under (the candidate email).
CandidateEmail ==
    IF IdsUnder(slack_email) # {} THEN slack_email ELSE halp_domain_tld_email

MergeIssued == Len(Merges) > 0
UpdateIssued == Len(Updates) > 0

\* A promotion: a primary_email update addressed to the placeholder's record.
Promoted ==
    \E i \in 1..Len(Updates) :
        Updates[i].field = "primary_email" /\ Updates[i].id \in PlaceholderIds

\* ------------------------------------------------------------------- claims

\* Cleanup has run: a record was found and merged_requester went through
\* line 332.
CleanupRan == requester_exists /\ merged_requester # <<>> /\ email_type = "secondary_emails"

\* C1: in every run in which a record is found under the canonical or the
\* halp-alias email, the canonical contact's secondary_emails after cleanup,
\* and the secondary_emails value written by the update call, never contain
\* the inbound-mailbox address.
C1_InboundAddressEliminated ==
    /\ CleanupRan => ~InList(merged_requester[1].secondary_emails[1], HALP_EMAIL)
    /\ requester_exists =>
          \A i \in 1..Len(Updates) :
              /\ Updates[i].field = "secondary_emails"
              /\ \A k \in 1..Len(Updates[i].value.val) : Updates[i].value.val[k] # HALP_EMAIL
    /\ (requester_exists /\ UpdateIssued /\ Updates[1].ok) =>
          \A i \in FoundIds : HALP_EMAIL \notin store[i][1].secondary_emails

\* C1 witness: a merge absorbed the placeholder, HALP_EMAIL came back among
\* other secondary emails, and the update was accepted.
C1_Witness ==
    /\ pc = "done"
    /\ FoundDifferentId
    /\ MergeIssued /\ UpdateIssued /\ Updates[1].ok
    /\ Len(Updates[1].value.val) >= 2
    /\ \E i \in PlaceholderIds : HALP_EMAIL \in Emails(store0[i][1])

\* C2 as stated: in every run that reaches the update step exactly one of a
\* merge call and a promotion of the placeholder occurs, whichever of the
\* three decision branches is taken.
C2_ExactlyOneOfMergeAndPromote ==
    UpdateIssued => (MergeIssued /\ ~Promoted) \/ (~MergeIssued /\ Promoted)

\* C2 amended: in every run that reaches the update step a merge call and a
\* promotion never both occur; the promotion alone occurs when no record was
\* found, the merge alone when the found record's id differs from the
\* placeholder's, and neither when the found record is the placeholder's own:
\* that run writes secondary_emails to the placeholder's record.
C2_MergeOrPromoteByBranch ==
    UpdateIssued =>
        /\ ~(MergeIssued /\ Promoted)
        /\ NoRecordFound => (Promoted /\ ~MergeIssued)
        /\ FoundDifferentId => (MergeIssued /\ ~Promoted)
        /\ FoundSameId =>
              /\ ~MergeIssued /\ ~Promoted
              /\ Updates[1].field = "secondary_emails"
              /\ Updates[1].id \in PlaceholderIds
        /\ NoRecordFound \/ FoundDifferentId \/ FoundSameId

\* C2 witness: the run found the placeholder's own record and reached the
\* update step, having neither merged nor promoted.
C2_Witness ==
    /\ pc = "done"
    /\ FoundSameId
    /\ UpdateIssued /\ Updates[1].ok
    /\ ~MergeIssued /\ ~Promoted

\* No record of the store carries the inbound-mailbox address.
NoInboundAddressLeft ==
    \A i \in Ids : store[i] # <<>> => HALP_EMAIL \notin Emails(store[i][1])

\* C3 as stated: at the end of every run that completes no contact record has
\* the inbound-mailbox address as its primary_email or inside its
\* secondary_emails, and the placeholder's record has been absorbed by a
\* merge into the found record or has had its own primary_email replaced by
\* the resolved address.
C3_PlaceholderDoesNotSurvive ==
    pc = "done" =>
        /\ NoInboundAddressLeft
        /\ \A i \in PlaceholderIds :
              \/ store[i] = <<>> /\ MergeIssued
              \/ /\ store[i] # <<>>
                 /\ store[i][1].primary_email # store0[i][1].primary_email
                 /\ store[i][1].primary_email \in {slack_email, halp_domain_tld_email}


\* C4: when neither the canonical-email lookup nor the halp-alias lookup finds
\* a record, the run issues no merge call and exactly one update call,
\* addressed to the placeholder's own id with field primary_email.
C4_PromoteIsOneUpdateOfThePlaceholder ==
    NoRecordFound =>
        /\ ~MergeIssued
        /\ Len(Updates) <= 1
        /\ pc # "update_email" =>
              /\ Len(Updates) = 1
              /\ Updates[1].id \in PlaceholderIds
              /\ Updates[1].field = "primary_email"

\* C4 witness: a completed run in which both lookups found nothing.
C4_Witness ==
    /\ pc = "done"
    /\ NoRecordFound
    /\ Len(Updates) = 1 /\ Updates[1].ok

\* The reverse direction of the canonicalization table, as section 4.2 of the
\* spec lists it: the first rewrite whose domain occurs is applied.
ReverseRewrites == << <<TOPHATMONOCLE, TOPHAT>>, <<BLUEDOORPUBLISHING, BLUEDOORCLOUD>> >>

ReverseCanonicalized(email) ==
    LET applicable == {k \in 1..Len(ReverseRewrites) : Contains(email, ReverseRewrites[k][1])}
    IN  IF applicable = {} THEN email
        ELSE Replace(email, ReverseRewrites[Min(applicable)][1], ReverseRewrites[Min(applicable)][2])

MergedSecondaryEmails ==
    UNION {store0[i][1].secondary_emails : i \in FoundIds}
        \cup UNION {Emails(store0[i][1]) : i \in PlaceholderIds}

\* C6: when a record is found whose id differs from the placeholder's and the
\* merged record's secondary_emails minus the inbound-mailbox address is not
\* empty, the run writes to the found record's id, with field
\* secondary_emails, exactly the merged secondary_emails with the
\* inbound-mailbox address removed: nothing added, dropped or rewritten.
C6_WritesMergedListWithoutInbound ==
    (FoundDifferentId /\ UpdateIssued /\ MergedSecondaryEmails \ {HALP_EMAIL} # {}) =>
        /\ Len(Updates) = 1
        /\ Updates[1].id \in FoundIds
        /\ Updates[1].field = "secondary_emails"
        /\ Updates[1].value.kind = "list"
        /\ ListSet(Updates[1].value.val) = MergedSecondaryEmails \ {HALP_EMAIL}
        /\ Len(Updates[1].value.val) = Cardinality(MergedSecondaryEmails \ {HALP_EMAIL})
        /\ Updates[1].ok =>
              \A i \in FoundIds :
                  store[i][1].secondary_emails = MergedSecondaryEmails \ {HALP_EMAIL}

\* C6 witness: a tophat sender's record was found under another id, the merge
\* left personal@gmail.com beside the inbound address, and the update was
\* accepted.
C6_Witness ==
    /\ pc = "done"
    /\ FoundDifferentId
    /\ Contains(slack_email, TOPHATMONOCLE)
    /\ MergedSecondaryEmails = {PERSONAL, HALP_EMAIL}
    /\ Len(Updates) = 1 /\ Updates[1].ok

\* The cleaned list is empty: the merged (or the placeholder's own) secondary
\* emails held the inbound address alone.
EmptyAfterCleanup ==
    /\ FoundIds # {}
    /\ (IF FoundDifferentId THEN MergedSecondaryEmails
        ELSE UNION {store0[i][1].secondary_emails : i \in PlaceholderIds}) = {HALP_EMAIL}

\* C7: when the canonical contact's secondary emails are empty once the
\* inbound-mailbox address is removed, the one email the run writes is the
\* reverse-canonicalized form of the candidate email (the canonical email, or
\* the halp alias when the record was found under it): tophatmonocle.com back
\* to tophat.com, so that canonicalizing it again gives the candidate email,
\* bluedoorpublishing.com to bluedoorcloud.com, any other address unchanged.
C7_EmptySetWritesReverseCanonicalized ==
    (EmptyAfterCleanup /\ UpdateIssued) =>
        LET written == Updates[1].value.val
        IN  /\ Len(Updates) = 1
            /\ Len(written) = 1
            /\ written[1] = ReverseCanonicalized(CandidateEmail)
            /\ Contains(CandidateEmail, TOPHATMONOCLE) =>
                  /\ Canonicalize(written[1]) = CandidateEmail
                  /\ ~Contains(written[1], TOPHATMONOCLE)
            /\ Contains(CandidateEmail, BLUEDOORPUBLISHING) =>
                  /\ Contains(written[1], BLUEDOORCLOUD)
                  /\ ~Contains(written[1], BLUEDOORPUBLISHING)

\* C7 witness: a bluedoorpublishing.com record found under the halp alias
\* whose list is empty after cleanup.
C7_Witness ==
    /\ EmptyAfterCleanup /\ UpdateIssued
    /\ CandidateEmail = halp_domain_tld_email
    /\ Contains(CandidateEmail, BLUEDOORPUBLISHING)
    /\ Updates[1].ok

\* C8 as stated: for every update call the value is a single string exactly
\* when the field is primary_email and a list of strings exactly when the
\* field is secondary_emails.
C8_ValueShapeMatchesField ==
    \A i \in 1..Len(Updates) :
        /\ (Updates[i].value.kind = "str") <=> (Updates[i].field = "primary_email")
        /\ (Updates[i].value.kind = "list") <=> (Updates[i].field = "secondary_emails")

\* The calls to the contact store.
IsStoreCall(c) == c.api \in {"get_requester", "merge", "update_email"}

\* C9: if the external service rejects a lookup, merge or update call, the run
\* aborts at once: the rejected call is the run's last call (no later call, no
\* retry), and effects already applied are kept: after a merge that succeeded
\* and an update that was rejected, the placeholder is gone from the store and
\* all its emails are among the found record's secondary emails.
C9_RejectionIsFatalAndNothingIsRolledBack ==
    /\ \A i \in 1..Len(calls) :
          (IsStoreCall(calls[i]) /\ ~calls[i].ok) =>
              /\ i = Len(calls)
              /\ pc = "aborted"
              /\ error = "KeyError"
              /\ ticket = <<>>
    /\ (MergeIssued /\ Merges[1].ok /\ UpdateIssued /\ ~Updates[1].ok) =>
          /\ \A i \in PlaceholderIds : store[i] = <<>>
          /\ \A i \in FoundIds :
                /\ store[i] # <<>>
                /\ store[i][1].secondary_emails = MergedSecondaryEmails
                /\ HALP_EMAIL \in store[i][1].secondary_emails
    /\ (MergeIssued /\ ~Merges[1].ok) => store = store0
    /\ (~MergeIssued /\ UpdateIssued /\ ~Updates[1].ok) => store = store0

\* C9 witness: the merge was accepted, the update that followed was rejected.
C9_Witness ==
    /\ pc = "aborted"
    /\ MergeIssued /\ Merges[1].ok
    /\ UpdateIssued /\ ~Updates[1].ok
    /\ Updates[1].value.kind = "list"
    /\ calls[Len(calls)].api = "update_email"

\* C10: if no contact record exists under the inbound-mailbox address at run
\* start, the run aborts with a fatal error at the placeholder lookup, before
\* any merge, update or ticket write is issued, and the store is unchanged.
C10_PlaceholderMissingIsFatal ==
    (PlaceholderIds = {} /\ Len(Lookups) >= 1 /\ Lookups[1].ok) =>
        /\ pc = "aborted"
        /\ error = "ValueError"
        /\ calls[Len(calls)] = Lookups[1]
        /\ Lookups[1].arg = HALP_EMAIL
        /\ ~MergeIssued /\ ~UpdateIssued /\ Len(TicketWrites) = 0
        /\ store = store0
        /\ ticket = <<>>

\* C10 witness: the placeholder lookup was answered with an empty list while
\* the sender's own record exists.
C10_Witness ==
    /\ PlaceholderIds = {}
    /\ Len(Lookups) = 1 /\ Lookups[1].ok
    /\ \E i \in Ids : store0[i] # <<>>
    /\ pc = "aborted"

\* The target name is in the user's display name or in its real name.
NameContained(user) ==
    \/ Contains(user.display_name_normalized, SlackName(input))
    \/ Contains(user.real_name_normalized, SlackName(input))

\* The users of the directory that hold the target name, as <<page, position>>.
UsersMatching ==
    UNION { { <<p, i>> : i \in {j \in 1..Len(directory[p].members) :
                                   NameContained(directory[p].members[j])} } :
            p \in DOMAIN directory }

DirectoryCalls == CallsTo("users.list")

\* The page ends the directory: its next cursor is empty or absent.
EndsDirectory(page) == page.next_cursor \in {<<>>, <<EmptyCursor>>}

\* C11: if no user on any page of the directory matches the target name, the
\* lookup follows the cursor chain from the first page, fetching each page
\* once, and fails as soon as a fetched page carries an empty or absent next
\* cursor: the run is aborted, that request is its last call, and no
\* contact-store lookup, merge, update or ticket write is ever issued.
C11_DirectoryExhaustedIsTerminal ==
    UsersMatching = {} =>
        /\ \A k \in 1..Len(calls) :
              /\ calls[k].api = "users.list"
              /\ calls[k].arg = IF k = 1 THEN <<Initial>>
                                ELSE directory[calls[k - 1].arg[1]].next_cursor
              /\ \A j \in 1..Len(calls) : calls[j].arg = calls[k].arg => j = k
              /\ (calls[k].ok /\ EndsDirectory(directory[calls[k].arg[1]])) =>
                    /\ k = Len(calls)
                    /\ pc = "aborted"
                    /\ error \in {"TypeError", "KeyError"}
              /\ (calls[k].ok /\ ~EndsDirectory(directory[calls[k].arg[1]]) /\ k = Len(calls)) =>
                    pc = "users_list"
        /\ pc \in {"users_list", "aborted"}
        /\ store = store0
        /\ ticket = <<>>

\* C11 witness: two pages were fetched, neither holds the name, and the
\* second one's empty cursor ended the run.
C11_Witness ==
    /\ UsersMatching = {}
    /\ Len(calls) = 2 /\ calls[2].ok
    /\ directory[2].next_cursor = <<EmptyCursor>>
    /\ pc = "aborted" /\ error = "TypeError"

\* The first user holding the target name, pages in cursor order and users
\* in page order.
FirstUserMatching ==
    CHOOSE pi \in UsersMatching :
        \A qj \in UsersMatching : pi[1] < qj[1] \/ (pi[1] = qj[1] /\ pi[2] <= qj[2])

TicketWriteIssued == Len(TicketWrites) > 0

\* The canonical contact's first or last name is not the placeholder's.
NamesDiffer ==
    /\ new_requester # <<>> /\ existing_requester # <<>>
    /\ \/ new_requester[1].first_name # existing_requester[1].first_name
       \/ new_requester[1].last_name # existing_requester[1].last_name

\* C13 as stated: a ticket write is issued if and only if the run is not a
\* reply and the canonical contact's first or last name differs from the
\* placeholder's (string equality, each name on its own); the one ticket
\* write follows the update call and sets halp_requester to the placeholder's
\* first and last name; a reply run writes no ticket.
C13_TicketWriteIffNamesDiffer ==
    /\ TicketWriteIssued =>
          /\ ~IS_REPLY(input)
          /\ NamesDiffer
          /\ Len(TicketWrites) = 1
          /\ UpdateIssued /\ Updates[1].ok
          /\ calls[Len(calls)].api = "update_ticket"
          /\ calls[Len(calls) - 1].api = "update_email"
          /\ TicketWrites[1].field = "halp_requester"
          /\ TicketWrites[1].value =
                Str(new_requester[1].first_name \o <<" ">> \o new_requester[1].last_name)
    /\ (~IS_REPLY(input) /\ NamesDiffer /\ UpdateIssued /\ Updates[1].ok) =>
          (TicketWriteIssued \/ pc = "update_ticket")
    /\ IS_REPLY(input) => ~TicketWriteIssued

\* local@domain.tld: something before the first "@", and a last dot after it
\* with a label behind it.
HasLocalDomainTld(email) ==
    /\ Positions(email, "@") # {} /\ Positions(email, ".") # {}
    /\ Min(Positions(email, "@")) > 1
    /\ Max(Positions(email, ".")) > Min(Positions(email, "@"))
    /\ Max(Positions(email, ".")) < Len(email)

\* local@halp.domain.tld, the domain being all there is between the "@" and
\* the last dot.
LocalAtHalpDomainTld(email) ==
    LET at == Min(Positions(email, "@"))
        dot == Max(Positions(email, "."))
    IN  SubSeq(email, 1, at - 1) \o <<"@", "halp", ".">> \o SubSeq(email, at + 1, dot - 1)
            \o <<".">> \o SubSeq(email, dot + 1, Len(email))

\* The script came to the synthesis: the lookup under the canonical email was
\* answered and found no record.
SynthesisCalledFor ==
    CanonicalLookupAnswered /\ IdsUnder(slack_email) = {}

\* C14 as stated: for every email local@domain.tld, the domain being
\* everything between "@" and the last dot-delimited label, the halp-alias
\* synthesis yields exactly local@halp.domain.tld.
C14_HalpAliasSynthesis ==
    (SynthesisCalledFor /\ HasLocalDomainTld(slack_email)) =>
        halp_domain_tld_email = LocalAtHalpDomainTld(slack_email)

\* The email the directory holds for the sender.
DirectoryEmail == directory[FirstUserMatching[1]].members[FirstUserMatching[2]].email

\* The run applied the forward table to the directory email (lines 282-283)
\* and then the reverse table to the result (lines 334-340): the record was
\* found under the canonical email and the cleaned list is empty.
ForwardThenReverseApplied ==
    /\ UsersMatching # {}
    /\ EmptyAfterCleanup /\ UpdateIssued
    /\ CandidateEmail = slack_email

\* C15 as stated: for an address already in canonical form (the forward
\* table finds nothing to rewrite in it), the forward table and then the
\* reverse table give the address back unchanged.
C15_ForwardThenReverseKeepsCanonical ==
    (ForwardThenReverseApplied /\ ~Contains(DirectoryEmail, TOPHAT)) =>
        Updates[1].value.val = <<DirectoryEmail>>

\* C15 amended: the forward table and then the reverse table give back the
\* address itself when it holds tophat.com and when it holds none of
\* tophat.com, tophatmonocle.com and bluedoorpublishing.com; an address
\* already in canonical form under tophatmonocle.com comes back under
\* tophat.com, and one under bluedoorpublishing.com under bluedoorcloud.com.
C15_ForwardThenReverse ==
    ForwardThenReverseApplied =>
        LET d == DirectoryEmail
            written == Updates[1].value.val
        IN  /\ Len(written) = 1
            /\ IF Contains(d, TOPHATMONOCLE)
               THEN written[1] = Replace(d, TOPHATMONOCLE, TOPHAT) /\ written[1] # d
               ELSE IF Contains(d, BLUEDOORPUBLISHING)
               THEN written[1] = Replace(d, BLUEDOORPUBLISHING, BLUEDOORCLOUD) /\ written[1] # d
               ELSE written[1] = d

\* C15 witness: a tophat.com directory email was rewritten to
\* tophatmonocle.com, the record was found under it, and the email written
\* back was accepted.
C15_Witness ==
    /\ ForwardThenReverseApplied
    /\ Contains(DirectoryEmail, TOPHAT)
    /\ Contains(slack_email, TOPHATMONOCLE)
    /\ Updates[1].ok
    /\ pc = "done"

\* A name with every "(" and ")" removed.
StripParentheses(name) == SelectSeq(name, LAMBDA c : c \notin {"(", ")"})

HoldsParentheses(name) == \E i \in 1..Len(name) : name[i] \in {"(", ")"}

\* With the parentheses stripped from both names, the target name is in the
\* user's display name.
DisplayNameHoldsStripped(user) ==
    Contains(StripParentheses(user.display_name_normalized), StripParentheses(SlackName(input)))

\* The first user of the directory whose display name holds parentheses the
\* target name lacks and, but for them, holds the target name; no user
\* before it holds the target name.
ParenthesisUsers ==
    UNION { { <<p, i>> : i \in {j \in 1..Len(directory[p].members) :
                /\ HoldsParentheses(directory[p].members[j].display_name_normalized)
                /\ ~HoldsParentheses(SlackName(input))
                /\ DisplayNameHoldsStripped(directory[p].members[j])
                /\ \A qj \in UsersMatching : qj[1] > p \/ (qj[1] = p /\ qj[2] >= j)} } :
            p \in DOMAIN directory }

\* C16 as stated: when a directory user's display name contains parentheses
\* that the target name lacks (display name "Jane (Doe)", target "Jane Doe"),
\* the lookup, once it has fetched that user's page, returns that user's
\* email, and the match is found on the display name.
C16_ParenthesisTolerance ==
    \A pi \in ParenthesisUsers :
        LET user == directory[pi[1]].members[pi[2]]
        IN  (Len(DirectoryCalls) >= pi[1] /\ DirectoryCalls[pi[1]].ok) =>
                /\ slack_email = Canonicalize(user.email)
                /\ Contains(user.display_name_normalized, SlackName(input))

\* The placeholder's own secondary emails at the start of the run.
PlaceholderSecondaryEmails == UNION {store0[i][1].secondary_emails : i \in PlaceholderIds}

\* C17: a merge call is issued if and only if a record was found, under the
\* canonical or the halp-alias email, whose id differs from the
\* placeholder's; it names the found record as the surviving primary and the
\* placeholder as the absorbed secondary; a run issues at most one merge and
\* the merge precedes the update call; when the found record has the
\* placeholder's own id no merge is issued and the cleanup works on the
\* placeholder's own secondary_emails.
C17_MergeIffFoundDifferentId ==
    /\ Len(Merges) <= 1
    /\ MergeIssued =>
          /\ FoundDifferentId
          /\ Merges[1].id \in FoundIds
          /\ Merges[1].arg \in {<<i>> : i \in PlaceholderIds}
          /\ \A i, j \in 1..Len(calls) :
                (calls[i].api = "merge" /\ calls[j].api = "update_email") => i < j
    /\ FoundDifferentId => (MergeIssued \/ pc = "merge_requesters")
    /\ (UpdateIssued /\ FoundDifferentId) => Merges[1].ok
    /\ FoundSameId =>
          /\ ~MergeIssued /\ pc # "merge_requesters"
          /\ CleanupRan =>
                /\ merged_requester[1].id \in PlaceholderIds
                /\ ListSet(merged_requester[1].secondary_emails[1])
                       = PlaceholderSecondaryEmails \ {HALP_EMAIL}
          /\ UpdateIssued =>
                /\ Updates[1].id \in PlaceholderIds
                /\ PlaceholderSecondaryEmails \ {HALP_EMAIL} # {} =>
                      ListSet(Updates[1].value.val) = PlaceholderSecondaryEmails \ {HALP_EMAIL}

\* C17 witness: the record found under the halp alias has another id than
\* the placeholder; one merge, then the update, and the run completed.
C17_Witness ==
    /\ pc = "done"
    /\ FoundDifferentId
    /\ CandidateEmail = halp_domain_tld_email
    /\ Len(Merges) = 1 /\ Merges[1].ok
    /\ Len(Updates) = 1 /\ Updates[1].ok

\* The lookup under the canonical email was answered and found a record.
FoundUnderCanonical == CanonicalLookupAnswered /\ IdsUnder(slack_email) # {}

\* C18 as stated: the halp-alias lookup is issued if and only if the lookup
\* under the canonical email found no record, and after it; when the
\* canonical lookup finds a record, that record is the canonical contact and
\* the candidate email is the canonical email; otherwise the candidate email
\* is the halp alias, whether or not the alias lookup finds a record.
C18_AliasLookupIffCanonicalFoundNone ==
    /\ Len(Lookups) <= 3
    /\ Len(Lookups) >= 2 => Lookups[2].arg = slack_email
    /\ Len(Lookups) >= 3 =>
          /\ SynthesisCalledFor
          /\ Lookups[3].arg = LocalAtHalpDomainTld(slack_email)
    /\ SynthesisCalledFor => (Len(Lookups) >= 3 \/ pc = "get_halp_alias")
    /\ FoundUnderCanonical =>
          /\ Len(Lookups) = 2
          /\ existing_requester # <<>> /\ existing_requester[1].id \in IdsUnder(slack_email)
          /\ pc = "merge_requesters" => email_to_update = Str(slack_email)
          /\ (EmptyAfterCleanup /\ UpdateIssued) =>
                Updates[1].value.val = <<ReverseCanonicalized(slack_email)>>
    /\ AliasLookupAnswered =>
          /\ pc = "merge_requesters" => email_to_update = Str(Lookups[3].arg)
          /\ (NoRecordFound /\ UpdateIssued) => Updates[1].value = Str(Lookups[3].arg)
          /\ (FoundIds # {} /\ EmptyAfterCleanup /\ UpdateIssued) =>
                Updates[1].value.val = <<ReverseCanonicalized(Lookups[3].arg)>>

\* No external service has rejected a call of the run.
NoCallRejected == \A i \in 1..Len(calls) : calls[i].ok

\* C19 as stated: every run in which the directory holds a matching user,
\* the placeholder exists and no external call is rejected raises no error,
\* and when it ends it has issued the update call and is done: in reply and
\* in non-reply mode, in the promote, merge and same-id branches, whether or
\* not the names compared at the annotate stage are equal.
C19_EveryRunReachesDone ==
    (UsersMatching # {} /\ PlaceholderIds # {} /\ NoCallRejected) =>
        /\ pc # "aborted"
        /\ error = ""
        /\ pc = "done" => UpdateIssued

\* The merges the store accepted from either invocation.
AcceptedMerges ==
    SelectSeq(calls \o other.calls, LAMBDA c : c.api = "merge" /\ c.ok)

BothCompleted == pc = "done" /\ other.run.pc = "done"

\* What one invocation alone leaves in the secondary_emails of the record
\* `contact` it merges the record `placeholder` into: the emails of both but
\* HALP_EMAIL or, when there is no other, the reverse-canonicalized email the
\* record was found under. The second of two invocations in a row finds no
\* record under HALP_EMAIL and changes nothing.
OneAfterTheOther(contact, placeholder) ==
    LET merged == (store0[contact][1].secondary_emails \cup Emails(store0[placeholder][1]))
                      \ {HALP_EMAIL}
        candidate == IF Find(store0, slack_email) # {} THEN slack_email
                     ELSE LocalAtHalpDomainTld(slack_email)
    IN  IF merged = {} THEN {ReverseCanonicalized(candidate)} ELSE merged

====
